---- MODULE Spec2Model ----
(***************************************************************************)
(* A model of inf.py: the search for sentences in implicative normal form  *)
(* (INF) that reproduce a truth table.                                     *)
(*                                                                         *)
(* Python lists and tuples are TLA+ sequences.  Variable indices keep the  *)
(* program's 0-based values, so index i of an assignment a is a[i + 1].    *)
(* The outcome of a call that may raise is one of the strings "True",      *)
(* "False" (the returned value) or "IndexError" (the exception raised).    *)
(***************************************************************************)
EXTENDS Integers, Sequences, FiniteSets, TLC

VARIABLES
    seq, subsets, ps_pc,
    sentence, assignments, result,
    truth_table, implication_count, pc, exc, num_vars,
    implication_possibilities, pos, yielded,
    inp, printed

psVars == <<seq, subsets, ps_pc>>
evVars == <<sentence, assignments, result>>
findVars == <<truth_table, implication_count, pc, exc, num_vars, implication_possibilities, pos, yielded>>
runVars == <<inp, printed>>
vars == <<psVars, evVars, findVars, runVars>>

(***************************************************************************)
(* Bounds of the model.                                                    *)
(***************************************************************************)
\* powerset is applied to sequences of at most MaxLen distinct items of 0..MaxItem
MaxLen == 4
MaxItem == 3
\* evaluate_sentence is applied to sentences of at most MaxSentenceLen
\* implications whose index tuples are the subsets of 0..MaxIndex, and to
\* assignments of at most MaxArity values
MaxSentenceLen == 2
MaxIndex == 1
MaxArity == 2
\* tables built row by row over every assignment have at most MaxVars variables
MaxVars == 2
\* other tables (any rows, repeated or contradictory ones included) have rows
\* of one length and at most MaxCells values in all, the outputs included
MaxCells == 4
\* a depth is searched only while its sentence space has at most MaxSentences
\* (find_inf_sentences called directly) or MaxRunSentences (run) sentences,
\* and find_inf_sentences is called directly with a count of at most MaxCount
MaxCount == 3
MaxSentences == 256
MaxRunSentences == 4096

(***************************************************************************)
(* Helpers over sequences.                                                 *)
(***************************************************************************)
RECURSIVE Pow(_, _)
Pow(b, e) == IF e = 0 THEN 1 ELSE b * Pow(b, e - 1)

Range(s) == {s[i] : i \in 1..Len(s)}

SeqsUpTo(S, n) == UNION {[1..m -> S] : m \in 0..n}

\* range(n): the list 0, 1, ..., n-1
range(n) == [i \in 1..n |-> i - 1]

\* itertools.product([True, False], repeat=n): the i-th tuple, i from 0; the
\* last position varies fastest and True comes before False
BoolTupleAt(n, i) == [j \in 1..n |-> ((i \div Pow(2, n - j)) % 2) = 0]

\* itertools.product(items, repeat=k): the i-th tuple, i from 0; the last
\* position varies fastest
ProductAt(items, k, i) ==
    [j \in 1..k |-> items[((i \div Pow(Len(items), k - j)) % Len(items)) + 1]]

(***************************************************************************)
(* powerset(seq)                                                           *)
(***************************************************************************)
RECURSIVE powerset_no_empty(_)
powerset_no_empty(s) ==
    IF Len(s) <= 1
    THEN <<s>>
    ELSE LET rest == powerset_no_empty(Tail(s))
         IN  [i \in 1..(2 * Len(rest)) |->
                 IF i % 2 = 1 THEN <<Head(s)>> \o rest[(i + 1) \div 2]
                              ELSE rest[i \div 2]]

RECURSIVE powerset(_)
powerset(s) ==
    IF Len(s) <= 1
    THEN <<s, <<>>>>
    ELSE LET rest == powerset(Tail(s))
         IN  [i \in 1..(2 * Len(rest)) |->
                 IF i % 2 = 1 THEN <<Head(s)>> \o rest[(i + 1) \div 2]
                              ELSE rest[i \div 2]]

(***************************************************************************)
(* evaluate_sentence(sentence, assignments)                                *)
(***************************************************************************)
\* all(assignments[i] for i in and_idxs): the generator is consumed up to the
\* first false value; reading an index past the end raises IndexError
all_values_empty_false(idxs, a) ==
    IF idxs = <<>> THEN "False"
    ELSE IF \E i \in 1..Len(idxs) : idxs[i] >= Len(a) THEN "IndexError"
    ELSE IF \A i \in 1..Len(idxs) : a[idxs[i] + 1] THEN "True"
    ELSE "False"

RECURSIVE all_values(_, _)
all_values(idxs, a) ==
    IF idxs = <<>> THEN "True"
    ELSE IF Head(idxs) >= Len(a) THEN "IndexError"
    ELSE IF ~a[Head(idxs) + 1] THEN "False"
    ELSE all_values(Tail(idxs), a)

\* any(assignments[j] for j in or_idxs): consumed up to the first true value
RECURSIVE any_values(_, _)
any_values(idxs, a) ==
    IF idxs = <<>> THEN "False"
    ELSE IF Head(idxs) >= Len(a) THEN "IndexError"
    ELSE IF a[Head(idxs) + 1] THEN "True"
    ELSE any_values(Tail(idxs), a)

\* one pass of the loop body: the truth of one implication
implication_truth_and_only(imp, a) ==
    LET ands_true == all_values(imp[1], a)
        ors_true  == any_values(imp[2], a)
    IN  IF ands_true = "IndexError" \/ ors_true = "IndexError" THEN "IndexError"
        ELSE IF ands_true = "False" THEN "True"
        ELSE "False"

implication_truth(imp, a) ==
    LET ands_true == all_values(imp[1], a)
        ors_true  == any_values(imp[2], a)
    IN  IF ands_true = "IndexError" \/ ors_true = "IndexError" THEN "IndexError"
        ELSE IF ands_true = "False" \/ ors_true = "True" THEN "True"
        ELSE "False"

RECURSIVE evaluate_sentence(_, _)
evaluate_sentence(s, a) ==
    IF s = <<>> THEN "True"
    ELSE LET t == implication_truth(Head(s), a)
         IN  IF t = "True" THEN evaluate_sentence(Tail(s), a) ELSE t


(***************************************************************************)
(* find_inf_sentences(truth_table, implication_count)                      *)
(***************************************************************************)
\* math.log(x, 2) of a positive integer, rounded down
RECURSIVE log2(_)
log2(x) == IF x <= 1 THEN 0 ELSE 1 + log2(x \div 2)

log2_is_integer_always(x) == TRUE

\* math.log(x, 2).is_integer() of a positive integer (exact for the sizes modelled)
log2_is_integer(x) == Pow(2, log2(x)) = x

implication_candidates_diagonal(n) ==
    LET ps == powerset(range(n))
    IN  [i \in 1..Len(ps) |-> <<ps[i], ps[i]>>]

\* itertools.product(powerset(list(range(num_vars))), repeat=2)
implication_candidates(n) ==
    LET ps == powerset(range(n))
    IN  [i \in 1..(Len(ps) * Len(ps)) |-> ProductAt(ps, 2, i - 1)]

sentence_space_short(impls, k) == Pow(Len(impls), k) - 1

\* the number of tuples of itertools.product(implication_possibilities, repeat=k)
sentence_space(impls, k) == Pow(Len(impls), k)

\* sentence_space(impls, k) <= budget, computed without passing the budget by
\* more than one factor
RECURSIVE CappedPow(_, _, _)
CappedPow(b, e, cap) ==
    IF e = 0 THEN 1
    ELSE LET p == CappedPow(b, e - 1, cap) IN IF p > cap THEN p ELSE b * p

WithinBudget(impls, k, budget) == CappedPow(Len(impls), k, budget) <= budget

BoolStr(b) == IF b THEN "True" ELSE "False"

RECURSIVE table_match_any(_, _)
table_match_any(s, table) ==
    IF table = <<>> THEN "False"
    ELSE LET r == evaluate_sentence(s, Head(table)[1])
         IN  IF r = "IndexError" THEN "IndexError"
             ELSE IF r = BoolStr(Head(table)[2]) THEN "True"
             ELSE table_match_any(s, Tail(table))

\* all(evaluate_sentence(sentence, assignments) == output for ... in truth_table):
\* the rows are tried in order up to the first one that differs
RECURSIVE table_match(_, _)
table_match(s, table) ==
    IF table = <<>> THEN "True"
    ELSE LET r == evaluate_sentence(s, Head(table)[1])
         IN  IF r = "IndexError" THEN "IndexError"
             ELSE IF r # BoolStr(Head(table)[2]) THEN "False"
             ELSE table_match(s, Tail(table))

\* the sentence the loop of find_inf_sentences is at
CurrentSentence == ProductAt(implication_possibilities, implication_count, pos)

SpaceSize == sentence_space(implication_possibilities, implication_count)

\* first resumption of the generator: the table is sized and the candidates built
GenStart ==
    /\ pc = "created"
    /\ IF Len(truth_table) = 0
       THEN /\ pc' = "raised"
            /\ exc' = "ValueError: math domain error"
            /\ UNCHANGED <<num_vars, implication_possibilities>>
       ELSE IF ~log2_is_integer(Len(truth_table))
       THEN /\ pc' = "raised"
            /\ exc' = "ValueError: Invalid size for truth table."
            /\ UNCHANGED <<num_vars, implication_possibilities>>
       ELSE /\ pc' = "loop"
            /\ exc' = exc
            /\ num_vars' = log2(Len(truth_table))
            /\ implication_possibilities' = implication_candidates(log2(Len(truth_table)))
    /\ UNCHANGED <<truth_table, implication_count, pos>>

\* one pass of the loop over the sentences: the sentence is tried on the table
GenCandidate ==
    /\ pc = "loop"
    /\ pos < SpaceSize
    /\ LET m == table_match(CurrentSentence, truth_table)
       IN  /\ pc' = IF m = "IndexError" THEN "raised" ELSE "loop"
           /\ exc' = IF m = "IndexError" THEN "IndexError" ELSE exc
    /\ pos' = pos + 1
    /\ UNCHANGED <<truth_table, implication_count, num_vars, implication_possibilities>>

Yields == table_match(CurrentSentence, truth_table) = "True"

FindStart ==
    /\ GenStart
    /\ UNCHANGED <<psVars, evVars, runVars, yielded>>

FindCandidate ==
    /\ GenCandidate
    /\ yielded' = IF Yields THEN Append(yielded, CurrentSentence) ELSE yielded
    /\ UNCHANGED <<psVars, evVars, runVars>>

\* the sentences are exhausted: the generator ends
FindStop ==
    /\ pc = "loop"
    /\ pos = SpaceSize
    /\ pc' = "done"
    /\ UNCHANGED <<psVars, evVars, runVars, truth_table, implication_count, exc,
                   num_vars, implication_possibilities, pos, yielded>>


(***************************************************************************)
(* build_truth_table() and run()                                           *)
(***************************************************************************)
\* the tables build_truth_table returns for n variables: one row for each
\* tuple of itertools.product([True, False], repeat=n), in that order
build_truth_table(n) ==
    {[i \in 1..Pow(2, n) |-> <<BoolTupleAt(n, i - 1), out[i]>>] :
        out \in [1..Pow(2, n) -> BOOLEAN]}

\* the generator of the current depth advances by one sentence; a sentence it
\* yields is printed by the body of the loop of run
RunStart ==
    /\ GenStart
    /\ UNCHANGED <<psVars, evVars, runVars, yielded>>

RunCandidate ==
    /\ GenCandidate
    /\ printed' = IF Yields THEN [printed EXCEPT ![implication_count] = @ + 1]
                            ELSE printed
    /\ UNCHANGED <<psVars, evVars, yielded, inp>>

\* the generator is exhausted: run asks 'Order k done. enter: more. q: quit.'
RunPrompt ==
    /\ pc = "loop"
    /\ pos = SpaceSize
    /\ pc' = "prompt"
    /\ UNCHANGED <<psVars, evVars, runVars, truth_table, implication_count, exc,
                   num_vars, implication_possibilities, pos, yielded>>

RunQuit ==
    /\ pc = "prompt"
    /\ inp' = "q"
    /\ pc' = "returned"
    /\ UNCHANGED <<psVars, evVars, printed, truth_table, implication_count, exc,
                   num_vars, implication_possibilities, pos, yielded>>

RunMoreSkip ==
    /\ pc = "prompt"
    /\ WithinBudget(implication_possibilities, implication_count + 2, MaxRunSentences)
    /\ \E answer \in {"", "Q"} : inp' = answer
    /\ implication_count' = implication_count + 2
    /\ pc' = "created"
    /\ pos' = 0
    /\ num_vars' = 0
    /\ implication_possibilities' = <<>>
    /\ printed' = printed \o <<0, 0>>
    /\ UNCHANGED <<psVars, evVars, truth_table, exc, yielded>>

\* any answer but 'q': the next count of itertools.count(1), a new generator
RunMore ==
    /\ pc = "prompt"
    /\ WithinBudget(implication_possibilities, implication_count + 1, MaxRunSentences)
    /\ \E answer \in {"", "Q"} : inp' = answer
    /\ implication_count' = implication_count + 1
    /\ pc' = "created"
    /\ pos' = 0
    /\ num_vars' = 0
    /\ implication_possibilities' = <<>>
    /\ printed' = Append(printed, 0)
    /\ UNCHANGED <<psVars, evVars, truth_table, exc, yielded>>

(***************************************************************************)
(* The calls of the pure functions.                                        *)
(***************************************************************************)
PowersetCall ==
    /\ ps_pc = "call"
    /\ subsets' = powerset(seq)
    /\ ps_pc' = "done"
    /\ UNCHANGED <<seq, evVars, findVars, runVars>>

EvaluateCall ==
    /\ result = "pending"
    /\ result' = evaluate_sentence(sentence, assignments)
    /\ UNCHANGED <<sentence, assignments, psVars, findVars, runVars>>

(***************************************************************************)
(* Inputs and specifications.                                              *)
(***************************************************************************)
DistinctSeqs == {s \in SeqsUpTo(0..MaxItem, MaxLen) : \A i, j \in 1..Len(s) : s[i] = s[j] => i = j}

IdxTuples == Range(powerset(range(MaxIndex + 1)))

Sentences == SeqsUpTo(IdxTuples \X IdxTuples, MaxSentenceLen)

Assignments == SeqsUpTo(BOOLEAN, MaxArity)

BuiltTables == UNION {build_truth_table(n) : n \in 0..MaxVars}

AnyTables ==
    UNION {[1..l -> [1..a -> BOOLEAN] \X BOOLEAN] :
              <<l, a>> \in {la \in (0..MaxCells) \X (0..MaxCells) : la[1] * (la[2] + 1) <= MaxCells}}

IdlePowerset == seq = <<>> /\ subsets = <<>> /\ ps_pc = "idle"

IdleEvaluate == sentence = <<>> /\ assignments = <<>> /\ result = "idle"

IdleFind ==
    /\ truth_table = <<>> /\ implication_count = 0 /\ pc = "idle" /\ exc = ""
    /\ num_vars = 0 /\ implication_possibilities = <<>> /\ pos = 0 /\ yielded = <<>>

IdleRun == inp = "" /\ printed = <<>>

\* powerset called on a sequence of distinct items
InitPowerset ==
    /\ seq \in DistinctSeqs /\ subsets = <<>> /\ ps_pc = "call"
    /\ IdleEvaluate /\ IdleFind /\ IdleRun

SpecPowerset == InitPowerset /\ [][PowersetCall]_vars

\* evaluate_sentence called on a sentence and an assignment
InitEvaluate ==
    /\ sentence \in Sentences /\ assignments \in Assignments /\ result = "pending"
    /\ IdlePowerset /\ IdleFind /\ IdleRun

SpecEvaluate == InitEvaluate /\ [][EvaluateCall]_vars

\* find_inf_sentences called on a table and a count, and consumed to its end
InitFind ==
    /\ truth_table \in BuiltTables \cup AnyTables
    /\ implication_count \in 1..MaxCount
    /\ log2_is_integer(Len(truth_table)) =>
         WithinBudget(implication_candidates(log2(Len(truth_table))), implication_count,
                      MaxSentences)
    /\ pc = "created" /\ exc = "" /\ num_vars = 0
    /\ implication_possibilities = <<>> /\ pos = 0 /\ yielded = <<>>
    /\ IdlePowerset /\ IdleEvaluate /\ IdleRun

NextFind == FindStart \/ FindCandidate \/ FindStop

SpecFind == InitFind /\ [][NextFind]_vars

\* the depth by which a table of two rows or more is to be matched: its number
\* of false rows, at least 1, and 1 when every row is false
DepthBound(table) ==
    LET falses == Cardinality({r \in 1..Len(table) : ~table[r][2]})
    IN  IF falses = 0 \/ falses = Len(table) THEN 1 ELSE falses

\* run(): the table is the one build_truth_table returned; a table of two rows
\* or more is taken when the search space of its DepthBound is within the budget
InitRun ==
    /\ truth_table \in BuiltTables
    /\ Len(truth_table) >= 2 =>
         WithinBudget(implication_candidates(log2(Len(truth_table))), DepthBound(truth_table),
                      MaxRunSentences)
    /\ implication_count = 1
    /\ pc = "created" /\ exc = "" /\ num_vars = 0
    /\ implication_possibilities = <<>> /\ pos = 0 /\ yielded = <<>>
    /\ inp = "" /\ printed = <<0>>
    /\ IdlePowerset /\ IdleEvaluate

NextRun == RunStart \/ RunCandidate \/ RunPrompt \/ RunQuit \/ RunMore

SpecRun == InitRun /\ [][NextRun]_vars

Init == InitPowerset \/ InitEvaluate \/ InitFind \/ InitRun

Next == PowersetCall \/ EvaluateCall \/ NextFind \/ NextRun

Spec == Init /\ [][Next]_vars


(***************************************************************************)
(* The meaning of a sentence, stated over sets of variable indices.        *)
(***************************************************************************)
\* (conjunction of the antecedent) => (disjunction of the consequent); ante and
\* cons are sets of indices, a an assignment that has all of them
ImplicationHolds(ante, cons, a) ==
    (~ \A i \in ante : a[i + 1]) \/ (\E j \in cons : a[j + 1])

SentenceHolds(s, a) ==
    \A m \in 1..Len(s) : ImplicationHolds(Range(s[m][1]), Range(s[m][2]), a)

IndicesOf(s) == UNION {Range(s[m][1]) \cup Range(s[m][2]) : m \in 1..Len(s)}

IsPowerOfTwo(x) == \E e \in 0..x : Pow(2, e) = x

\* the sentences of k implications over n variables, as tuples of pairs of sets
SetSentences(n, k) == [1..k -> (SUBSET (0..(n - 1))) \X (SUBSET (0..(n - 1)))]

AsSets(s) == [m \in 1..Len(s) |-> <<Range(s[m][1]), Range(s[m][2])>>]

SetSentenceAgrees(t, table) ==
    \A r \in 1..Len(table) :
        (\A m \in 1..Len(t) : ImplicationHolds(t[m][1], t[m][2], table[r][1])) = table[r][2]

PositionIn(s, x) == CHOOSE i \in 1..Len(s) : s[i] = x

\* t is made of items of s (a sequence of distinct items) in the order of s
IsOrderedSubsequence(t, s) ==
    /\ Range(t) \subseteq Range(s)
    /\ \A p, q \in 1..Len(t) : p < q => PositionIn(s, t[p]) < PositionIn(s, t[q])

OrTable ==
    << <<<<TRUE, TRUE>>, TRUE>>, <<<<TRUE, FALSE>>, TRUE>>,
       <<<<FALSE, TRUE>>, TRUE>>, <<<<FALSE, FALSE>>, FALSE>> >>

NotTable == << <<<<TRUE>>, FALSE>>, <<<<FALSE>>, TRUE>> >>

(***************************************************************************)
(* C1: every sentence find_inf_sentences has yielded evaluates, by          *)
(* evaluate_sentence, to the expected output on every row of the table.    *)
(***************************************************************************)
C1_SearchSoundness ==
    \A i \in 1..Len(yielded) :
        \A r \in 1..Len(truth_table) :
            evaluate_sentence(yielded[i], truth_table[r][1]) = BoolStr(truth_table[r][2])

C1_Witness ==
    /\ Len(yielded) >= 2
    /\ implication_count = 2
    /\ num_vars = 2
    /\ \E r \in 1..Len(truth_table) : ~truth_table[r][2]

(***************************************************************************)
(* C2: when find_inf_sentences has ended, every tuple of k implications    *)
(* (pairs of subsets of 0..n-1, repeats allowed) that agrees with every    *)
(* row of the table has been yielded.                                      *)
(***************************************************************************)
C2_SearchCompleteness ==
    pc = "done" =>
        {t \in SetSentences(num_vars, implication_count) : SetSentenceAgrees(t, truth_table)}
            \subseteq {AsSets(yielded[i]) : i \in 1..Len(yielded)}

C2_Witness ==
    /\ pc = "done"
    /\ implication_count = 2
    /\ num_vars = 2
    /\ Len(yielded) >= 2
    /\ \E i \in 1..Len(yielded) : yielded[i][1] = yielded[i][2]

(***************************************************************************)
(* C3: on a table whose number of rows is no power of two, the generator   *)
(* raises ValueError when first resumed; no candidate has been built, no   *)
(* sentence tried and none yielded.                                        *)
(***************************************************************************)
C3_SizingError ==
    (pc # "created" /\ ~IsPowerOfTwo(Len(truth_table))) =>
        /\ pc = "raised"
        /\ exc \in {"ValueError: Invalid size for truth table.", "ValueError: math domain error"}
        /\ implication_possibilities = <<>>
        /\ pos = 0
        /\ yielded = <<>>

C3_Witness ==
    /\ pc = "raised"
    /\ Len(truth_table) = 3
    /\ exc = "ValueError: Invalid size for truth table."

(***************************************************************************)
(* C4: the implication candidates built for n variables.                   *)
(* As claimed: for all n >= 0 there are exactly 4^n of them, all distinct. *)
(* As amended: that holds for n >= 1; for n = 0 there are 4 candidates,    *)
(* every one the pair of two empty lists.                                  *)
(***************************************************************************)
CandidatesBuilt == pc \in {"loop", "done"}

AllDistinct(s) == \A i, j \in 1..Len(s) : s[i] = s[j] => i = j

C4_Claimed_CandidateCount ==
    CandidatesBuilt =>
        /\ Len(implication_possibilities) = Pow(4, num_vars)
        /\ AllDistinct(implication_possibilities)

C4_CandidateCount ==
    CandidatesBuilt =>
        IF num_vars >= 1
        THEN /\ Len(implication_possibilities) = Pow(4, num_vars)
             /\ AllDistinct(implication_possibilities)
        ELSE /\ Len(implication_possibilities) = 4
             /\ \A i \in 1..4 : implication_possibilities[i] = <<<<>>, <<>>>>

C4_Witness ==
    /\ CandidatesBuilt
    /\ num_vars = 2
    /\ Len(implication_possibilities) = 16

(***************************************************************************)
(* C5: powerset of a sequence of m >= 1 distinct items yields 2^m subsets, *)
(* each made of items of the sequence in their order, every subset once;   *)
(* of the empty sequence it yields two subsets, both empty.                *)
(***************************************************************************)
C5_Powerset ==
    ps_pc = "done" =>
        IF Len(seq) = 0
        THEN subsets = << <<>>, <<>> >>
        ELSE /\ Len(subsets) = Pow(2, Len(seq))
             /\ \A i \in 1..Len(subsets) : IsOrderedSubsequence(subsets[i], seq)
             /\ AllDistinct(subsets)
             /\ \A T \in SUBSET Range(seq) : \E i \in 1..Len(subsets) : Range(subsets[i]) = T

C5_Witness ==
    /\ ps_pc = "done"
    /\ Len(seq) = 3
    /\ seq[1] > seq[2]
    /\ Len(subsets) = 8

(***************************************************************************)
(* C6: on a sentence whose indices are all within the assignment,          *)
(* evaluate_sentence returns the conjunction of its implications, each     *)
(* (not AND of the antecedent) or (OR of the consequent); the empty        *)
(* sentence is true and the sentence [({}, {})] is false.                  *)
(***************************************************************************)
Evaluated == result \notin {"pending", "idle"}

C6_EvaluateIsConjunction ==
    Evaluated =>
        /\ (\A i \in IndicesOf(sentence) : i < Len(assignments)) =>
               result = BoolStr(SentenceHolds(sentence, assignments))
        /\ sentence = <<>> => result = "True"
        /\ sentence = << << <<>>, <<>> >> >> => result = "False"

\* the first implication is false (the loop returns there) and the second is not
C6_Witness ==
    /\ result = "False"
    /\ Len(sentence) = 2
    /\ \A i \in IndicesOf(sentence) : i < Len(assignments)
    /\ ~ImplicationHolds(Range(sentence[1][1]), Range(sentence[1][2]), assignments)
    /\ ImplicationHolds(Range(sentence[2][1]), Range(sentence[2][2]), assignments)
    /\ Len(sentence[1][1]) = 2
    /\ Len(sentence[2][1]) = 2

(***************************************************************************)
(* C7: when some index of the sentence is out of range for the assignment, *)
(* evaluate_sentence raises instead of returning a truth value.            *)
(***************************************************************************)
C7_ArityMismatchFatal ==
    (Evaluated /\ \E i \in IndicesOf(sentence) : i >= Len(assignments)) =>
        result = "IndexError"

(***************************************************************************)
(* C8: with a count of 1, find_inf_sentences has yielded [({}, {0,1})] on  *)
(* the table of OR over two variables, and [({0}, {})] on the table of NOT *)
(* over one variable, when it ends.                                        *)
(***************************************************************************)
C8_EndToEnd ==
    (pc = "done" /\ implication_count = 1) =>
        /\ truth_table = OrTable => << <<<<>>, <<0, 1>>>> >> \in Range(yielded)
        /\ truth_table = NotTable => << <<<<0>>, <<>>>> >> \in Range(yielded)

C8_Witness ==
    /\ pc = "done"
    /\ implication_count = 1
    /\ truth_table = OrTable
    /\ Len(yielded) >= 1


(***************************************************************************)
(* C9: run searches the depths 1, 2, 3, ... in order, none skipped or      *)
(* repeated; every match of a depth is printed before the question for     *)
(* that depth is answered; the next depth starts only on an answer, and    *)
(* run stops exactly when the answer is 'q'.                               *)
(***************************************************************************)
\* the number of sentences of depth k that agree with every row of the table
MatchCount(table, k) ==
    LET impls == implication_candidates(log2(Len(table)))
    IN  Cardinality({i \in 0..(Pow(Len(impls), k) - 1) :
                        \A r \in 1..Len(table) :
                            SentenceHolds(ProductAt(impls, k, i), table[r][1]) = table[r][2]})

C9_AtQuestion ==
    /\ Len(printed) = implication_count
    /\ pc \in {"prompt", "returned"} =>
           printed[implication_count] = MatchCount(truth_table, implication_count)

C9_Step ==
    /\ implication_count' # implication_count =>
           /\ implication_count' = implication_count + 1
           /\ pc = "prompt" /\ pc' = "created"
           /\ inp' # "q"
    /\ pc = "prompt" => (pc' = "returned" <=> inp' = "q")
    /\ pc' = "returned" => pc = "prompt"
    /\ pc' = "created" => pc = "prompt"
    /\ inp' # inp => pc = "prompt"
    /\ \A d \in 1..Len(printed) :
           printed'[d] # printed[d] => (d = implication_count /\ pc = "loop")

C9_DepthLoopProtocol == [](C9_AtQuestion) /\ [][C9_Step]_vars

C9_Witness ==
    /\ pc = "returned"
    /\ implication_count = 3
    /\ num_vars = 2
    /\ printed[1] = 0
    /\ printed[3] > 0

(***************************************************************************)
(* C10: for a table of n >= 1 variables that lists every assignment once,  *)
(* when run asks its question for a depth that is at least                 *)
(* max(1, number of false rows), some depth up to it has printed a match.  *)
(* DepthBound is that number, but 1 for the table whose rows are all       *)
(* false, which is at most the claimed bound.                              *)
(***************************************************************************)
C10_MatchWithinBound ==
    (pc = "prompt" /\ Len(truth_table) >= 2
        /\ implication_count >= DepthBound(truth_table)) =>
        \E d \in 1..implication_count : printed[d] > 0

\* a table of three false rows, asked at depth 3, unmatched at depth 1
C10_Witness ==
    /\ pc = "prompt"
    /\ num_vars = 2
    /\ DepthBound(truth_table) = 3
    /\ implication_count = 3
    /\ printed[1] = 0
    /\ printed[3] > 0

====
